---------------------------- MODULE Spec2Model ----------------------------
(***************************************************************************)
(* A model of the networking-coach repository:                             *)
(*   - the relational schema with its row-level-security policies,         *)
(*     constraints and triggers (supabase migration, lines 1-130);         *)
(*   - the generate-networking-message edge function (lines 131-248 of     *)
(*     the same file);                                                     *)
(*   - the NetworkingCoach form component (client-side templates);         *)
(*   - the MessageHistory component (list, delete, favorite, copy).        *)
(* Each part has its own next-state relation and specification; the        *)
(* variables of the other parts are left unchanged by it.                  *)
(***************************************************************************)
EXTENDS Integers, Sequences, FiniteSets, Bags, TLC

VARIABLES
    authUsers,            \* auth.users: the ids of the existing users
    profiles,             \* public.profiles: a set of rows
    networking_messages,  \* public.networking_messages: a set of rows
    message_analytics,    \* public.message_analytics: a set of rows
    openAIApiKey,         \* edge function: Deno.env.get('OPENAI_API_KEY'), read at load
    pc,                   \* edge function: where the handler of the current request is
    req,                  \* edge function: the request being handled
    bodyRead,             \* edge function: whether req.json() was called for it
    outbound,             \* edge function: the fetch calls issued for it, in order
    upstream,             \* edge function: how the fetch settled
    response,             \* edge function: the Response returned for it
    messageData,          \* NetworkingCoach: the form
    generatedMessage,     \* NetworkingCoach: the message shown ("" shows none)
    activeStep,           \* NetworkingCoach: the progress step
    invocations,          \* NetworkingCoach: the requests it issued to the edge function
    lastGen,              \* NetworkingCoach: the form and the result of the last generation
    prevGen,              \* NetworkingCoach: those of the generation before it
    messages,             \* MessageHistory: the local list of rows
    loading,              \* MessageHistory: whether the list is still being loaded
    toast,                \* MessageHistory: the title of the toast shown last
    calls,                \* MessageHistory: the database calls in flight
    lastDelete,           \* MessageHistory: the last completed deleteMessage
    copiedId,             \* MessageHistory: the id of the card that shows "Copied!"
    timers,               \* MessageHistory: the setTimeout callbacks not yet run
    lastCopy,             \* MessageHistory: the last clipboard write of handleCopy
    clipboardOk,          \* MessageHistory: the ids whose clipboard write succeeded
    lastToggle,           \* MessageHistory: the last toggleFavorite that resumed
    clicks                \* MessageHistory: the clicks on Copy and Favorite so far

dbVars == <<authUsers, profiles, networking_messages, message_analytics>>
edgeVars == <<openAIApiKey, pc, req, bodyRead, outbound, upstream, response>>
coachVars == <<messageData, generatedMessage, activeStep, invocations, lastGen, prevGen>>
copyVars == <<copiedId, timers, lastCopy, clipboardOk>>
favoriteVars == <<lastToggle>>
historyVars == <<messages, loading, toast, calls, lastDelete, copyVars, favoriteVars, clicks>>

vars == <<authUsers, profiles, networking_messages, message_analytics,
          openAIApiKey, pc, req, bodyRead, outbound, upstream, response,
          messageData, generatedMessage, activeStep, invocations, lastGen, prevGen,
          messages, loading, toast, calls, lastDelete,
          copiedId, timers, lastCopy, clipboardOk, lastToggle, clicks>>

\* The variables of the other parts.
nonDbVars == <<edgeVars, coachVars, historyVars>>
nonEdgeVars == <<dbVars, coachVars, historyVars>>
nonCoachVars == <<dbVars, edgeVars, historyVars>>
nonHistoryVars == <<edgeVars, coachVars>>

(***************************************************************************)
(* Bounds of the model.                                                    *)
(***************************************************************************)
MaxUsers == 2
MaxMsgIds == 2
MaxAnalyticsIds == 1

\* SQL NULL: the value of auth.uid() for a request without a session, and of
\* a nullable column that is not set.  Ids are the positive integers.
NULL == 0

UserIds == 1..MaxUsers
ProfileIds == 1..MaxUsers
MsgIds == 1..MaxMsgIds
AnalyticsIds == 1..MaxAnalyticsIds

\* The values the model draws for the text columns and the timestamps.
Names == {"Ann", "Bo"}
Times == {1, 2}
MessageTypeInputs == {"linkedin", "sms"}
ActionTypeInputs == {"copied", "deleted"}

(***************************************************************************)
(* The schema: CHECK constraints.                                          *)
(***************************************************************************)
MessageTypeCheck(message_type) ==
    message_type \in {"linkedin", "informational", "recruiter-followup", "mentor-request"}

ActionTypeCheck(action_type) ==
    action_type \in {"generated", "copied", "favorited", "viewed"}

(***************************************************************************)
(* The row-level-security policies.  uid is auth.uid(); a comparison with  *)
(* NULL is not true, so a request without a session passes no policy.      *)
(* A command for which a table has no policy is denied (RLS is enabled     *)
(* and nothing permits it).                                                *)
(***************************************************************************)
SqlEq(a, b) == a # NULL /\ b # NULL /\ a = b

ProfilesSelectUsing(uid, row) == SqlEq(uid, row.user_id)
ProfilesInsertCheck(uid, row) == SqlEq(uid, row.user_id)
ProfilesUpdateUsing(uid, row) == SqlEq(uid, row.user_id)
ProfilesDeleteUsing(uid, row) == FALSE

MessagesSelectUsing(uid, row) == SqlEq(uid, row.user_id)
MessagesInsertCheck(uid, row) == SqlEq(uid, row.user_id)
MessagesUpdateUsing(uid, row) == SqlEq(uid, row.user_id)
MessagesDeleteUsing(uid, row) == SqlEq(uid, row.user_id)

AnalyticsSelectUsing(uid, row) == SqlEq(uid, row.user_id)
AnalyticsInsertCheck(uid, row) == SqlEq(uid, row.user_id)
AnalyticsUpdateUsing(uid, row) == FALSE
AnalyticsDeleteUsing(uid, row) == FALSE

(***************************************************************************)
(* SELECT * under the SELECT policy of each table.                         *)
(***************************************************************************)
SelectProfiles(uid, tbl) == {r \in tbl : ProfilesSelectUsing(uid, r)}
SelectMessages(uid, tbl) == {r \in tbl : MessagesSelectUsing(uid, r)}
SelectAnalytics(uid, tbl) == {r \in tbl : AnalyticsSelectUsing(uid, r)}

(***************************************************************************)
(* Foreign keys with ON DELETE CASCADE.  The referential actions run       *)
(* outside row-level security.                                             *)
(***************************************************************************)
\* message_analytics.message_id REFERENCES networking_messages(id)
CascadeMessageDelete(analytics, deletedIds) ==
    {a \in analytics : a.message_id \notin deletedIds}

\* user_id REFERENCES auth.users(id), in the three tables
CascadeUserDelete(tbl, u) == {r \in tbl : r.user_id # u}

Ids(tbl) == {r.id : r \in tbl}

(***************************************************************************)
(* handle_new_user: the body of the AFTER INSERT trigger on auth.users.    *)
(* It inserts the profile of the new user, with a fresh id.                *)
(***************************************************************************)
\* Variant: a trigger function that returns without inserting the profile.
handle_new_user_noInsert(tbl, newId, newName) == tbl

handle_new_user(tbl, newId, newName) ==
    LET pid == CHOOSE p \in ProfileIds : p \notin Ids(tbl)
    IN  tbl \cup {[id |-> pid, user_id |-> newId, full_name |-> newName]}

DbInit ==
    /\ authUsers = {}
    /\ profiles = {}
    /\ networking_messages = {}
    /\ message_analytics = {}

(***************************************************************************)
(* Sign-up: INSERT INTO auth.users, then the on_auth_user_created trigger  *)
(* in the same transaction.  The trigger function is not SECURITY DEFINER, *)
(* so whether its INSERT is permitted depends on the privileges of the     *)
(* inserting role: triggerOk.  When the trigger raises, the transaction    *)
(* is rolled back and no user is created.                                  *)
(***************************************************************************)
SignUp(u, name, triggerOk) ==
    /\ u \notin authUsers
    /\ IF /\ triggerOk
          /\ \A p \in profiles : p.user_id # u
       THEN /\ authUsers' = authUsers \cup {u}
            /\ profiles' = handle_new_user(profiles, u, name)
       ELSE UNCHANGED <<authUsers, profiles>>
    /\ UNCHANGED <<networking_messages, message_analytics>>
    /\ UNCHANGED nonDbVars

(***************************************************************************)
(* DELETE FROM auth.users, by the service role: the rows referencing the   *)
(* user are removed by ON DELETE CASCADE, and then the analytics rows      *)
(* referencing a removed message.                                          *)
(***************************************************************************)
DeleteUser(u) ==
    /\ u \in authUsers
    /\ authUsers' = authUsers \ {u}
    /\ profiles' = CascadeUserDelete(profiles, u)
    /\ networking_messages' = CascadeUserDelete(networking_messages, u)
    /\ message_analytics' =
          CascadeMessageDelete(CascadeUserDelete(message_analytics, u),
                               {m.id : m \in {r \in networking_messages : r.user_id = u}})
    /\ UNCHANGED nonDbVars

(***************************************************************************)
(* Statements on public.profiles, issued through the API with the session  *)
(* of uid.  A statement that violates a policy or a constraint raises and  *)
(* changes nothing; a row the USING clause hides is silently not matched.  *)
(***************************************************************************)
ProfileConstraints(row, others, users) ==
    /\ row.id # NULL /\ row.id \notin Ids(others)                       \* PRIMARY KEY
    /\ row.user_id # NULL                                               \* NOT NULL
    /\ \A p \in others : p.user_id # row.user_id                        \* UNIQUE
    /\ row.user_id \in users                                            \* REFERENCES auth.users

InsertProfile(uid, row) ==
    /\ IF ProfilesInsertCheck(uid, row) /\ ProfileConstraints(row, profiles, authUsers)
       THEN profiles' = profiles \cup {row}
       ELSE UNCHANGED profiles
    /\ UNCHANGED <<authUsers, networking_messages, message_analytics>>
    /\ UNCHANGED nonDbVars

\* UPDATE profiles SET user_id = .., full_name = .. WHERE id = pid.
\* The UPDATE policy has no WITH CHECK: its USING clause also checks the new row.
UpdateProfile(uid, pid, newUserId, newName) ==
    /\ LET hit == {r \in profiles : r.id = pid /\ ProfilesSelectUsing(uid, r)
                                    /\ ProfilesUpdateUsing(uid, r)}
           new(r) == [r EXCEPT !.user_id = newUserId, !.full_name = newName]
       IN  IF /\ hit # {}
              /\ \A r \in hit : /\ ProfilesUpdateUsing(uid, new(r))
                                /\ ProfileConstraints(new(r), profiles \ {r}, authUsers)
           THEN profiles' = (profiles \ hit) \cup {new(r) : r \in hit}
           ELSE UNCHANGED profiles
    /\ UNCHANGED <<authUsers, networking_messages, message_analytics>>
    /\ UNCHANGED nonDbVars

\* DELETE FROM profiles WHERE id = pid.
DeleteProfile(uid, pid) ==
    /\ profiles' = profiles \ {r \in profiles : r.id = pid /\ ProfilesSelectUsing(uid, r)
                                                /\ ProfilesDeleteUsing(uid, r)}
    /\ UNCHANGED <<authUsers, networking_messages, message_analytics>>
    /\ UNCHANGED nonDbVars

(***************************************************************************)
(* Statements on public.networking_messages.                               *)
(***************************************************************************)
MessageConstraints(row, others, users) ==
    /\ row.id # NULL /\ row.id \notin Ids(others)                       \* PRIMARY KEY
    /\ row.user_id # NULL                                               \* NOT NULL
    /\ row.user_id \in users                                            \* REFERENCES auth.users
    /\ MessageTypeCheck(row.message_type)                               \* CHECK

InsertMessageResult(uid, row, tbl, users) ==
    IF MessagesInsertCheck(uid, row) /\ MessageConstraints(row, tbl, users)
    THEN tbl \cup {row}
    ELSE tbl

InsertMessage(uid, row) ==
    /\ networking_messages' = InsertMessageResult(uid, row, networking_messages, authUsers)
    /\ UNCHANGED <<authUsers, profiles, message_analytics>>
    /\ UNCHANGED nonDbVars

\* UPDATE networking_messages SET user_id = .., is_favorite = .. WHERE id = mid.
UpdateMessageResult(uid, mid, newUserId, newFav, tbl, users) ==
    LET hit == {r \in tbl : r.id = mid /\ MessagesSelectUsing(uid, r)
                                      /\ MessagesUpdateUsing(uid, r)}
        new(r) == [r EXCEPT !.user_id = newUserId, !.is_favorite = newFav]
    IN  IF /\ hit # {}
           /\ \A r \in hit : /\ MessagesUpdateUsing(uid, new(r))
                             /\ MessageConstraints(new(r), tbl \ {r}, users)
        THEN (tbl \ hit) \cup {new(r) : r \in hit}
        ELSE tbl

UpdateMessage(uid, mid, newUserId, newFav) ==
    /\ networking_messages' =
          UpdateMessageResult(uid, mid, newUserId, newFav, networking_messages, authUsers)
    /\ UNCHANGED <<authUsers, profiles, message_analytics>>
    /\ UNCHANGED nonDbVars

\* DELETE FROM networking_messages WHERE id = mid: the rows it removes.
DeleteMessageHit(uid, mid, tbl) ==
    {r \in tbl : r.id = mid /\ MessagesSelectUsing(uid, r) /\ MessagesDeleteUsing(uid, r)}

DeleteMessage(uid, mid) ==
    /\ LET hit == DeleteMessageHit(uid, mid, networking_messages)
       IN  /\ networking_messages' = networking_messages \ hit
           /\ message_analytics' = CascadeMessageDelete(message_analytics, Ids(hit))
    /\ UNCHANGED <<authUsers, profiles>>
    /\ UNCHANGED nonDbVars

(***************************************************************************)
(* Statements on public.message_analytics.                                 *)
(***************************************************************************)
AnalyticsConstraints(row, others, users, msgs) ==
    /\ row.id # NULL /\ row.id \notin Ids(others)                       \* PRIMARY KEY
    /\ row.user_id # NULL                                               \* NOT NULL
    /\ row.user_id \in users                                            \* REFERENCES auth.users
    /\ row.message_id = NULL \/ row.message_id \in Ids(msgs)            \* REFERENCES networking_messages
    /\ ActionTypeCheck(row.action_type)                                 \* CHECK

InsertAnalyticsResult(uid, row, tbl, users, msgs) ==
    IF AnalyticsInsertCheck(uid, row) /\ AnalyticsConstraints(row, tbl, users, msgs)
    THEN tbl \cup {row}
    ELSE tbl

InsertAnalytics(uid, row) ==
    /\ message_analytics' =
          InsertAnalyticsResult(uid, row, message_analytics, authUsers, networking_messages)
    /\ UNCHANGED <<authUsers, profiles, networking_messages>>
    /\ UNCHANGED nonDbVars

\* UPDATE message_analytics SET action_type = .. WHERE id = aid.
UpdateAnalytics(uid, aid, newAction) ==
    /\ LET hit == {r \in message_analytics : r.id = aid /\ AnalyticsSelectUsing(uid, r)
                                                     /\ AnalyticsUpdateUsing(uid, r)}
       IN  IF hit # {} /\ ActionTypeCheck(newAction)
           THEN message_analytics' =
                   (message_analytics \ hit) \cup {[r EXCEPT !.action_type = newAction] : r \in hit}
           ELSE UNCHANGED message_analytics
    /\ UNCHANGED <<authUsers, profiles, networking_messages>>
    /\ UNCHANGED nonDbVars

\* DELETE FROM message_analytics WHERE id = aid.
DeleteAnalytics(uid, aid) ==
    /\ message_analytics' =
          message_analytics \ {r \in message_analytics : r.id = aid /\ AnalyticsSelectUsing(uid, r)
                                                               /\ AnalyticsDeleteUsing(uid, r)}
    /\ UNCHANGED <<authUsers, profiles, networking_messages>>
    /\ UNCHANGED nonDbVars

(***************************************************************************)
(* The rows a client may send.                                             *)
(***************************************************************************)
ProfileRows ==
    [id : ProfileIds, user_id : UserIds \cup {NULL}, full_name : Names]
MessageRows ==
    [id : MsgIds, user_id : UserIds \cup {NULL}, message_type : MessageTypeInputs,
     is_favorite : BOOLEAN, created_at : Times]
AnalyticsRows ==
    [id : AnalyticsIds, user_id : UserIds \cup {NULL}, message_id : MsgIds \cup {NULL},
     action_type : ActionTypeInputs]

\* One statement issued with the session of uid (NULL: no session).
Statement(uid) ==
    \/ \E row \in ProfileRows : InsertProfile(uid, row)
    \/ \E pid \in ProfileIds, u \in UserIds, n \in Names : UpdateProfile(uid, pid, u, n)
    \/ \E pid \in ProfileIds : DeleteProfile(uid, pid)
    \/ \E row \in MessageRows : InsertMessage(uid, row)
    \/ \E mid \in MsgIds, u \in UserIds, f \in BOOLEAN : UpdateMessage(uid, mid, u, f)
    \/ \E mid \in MsgIds : DeleteMessage(uid, mid)
    \/ \E row \in AnalyticsRows : InsertAnalytics(uid, row)
    \/ \E aid \in AnalyticsIds, a \in ActionTypeInputs : UpdateAnalytics(uid, aid, a)
    \/ \E aid \in AnalyticsIds : DeleteAnalytics(uid, aid)

DbStep ==
    \/ \E u \in UserIds, n \in Names, ok \in BOOLEAN : SignUp(u, n, ok)
    \/ \E u \in UserIds : DeleteUser(u)
    \/ \E uid \in UserIds \cup {NULL} : Statement(uid)

(***************************************************************************)
(* The edge function generate-networking-message.                          *)
(*                                                                         *)
(* A JavaScript string that the code inspects (the generated content) is a *)
(* sequence of characters; a string the code only passes on (a request     *)
(* field, a literal) is one TLA+ string, and a concatenation of such       *)
(* strings is the sequence of its pieces.                                  *)
(***************************************************************************)
MaxContentLen == 3

\* JavaScript's undefined: an absent property, an unset environment variable.
Undefined == "<undefined>"
\* No request, no settled fetch, no response yet.
None == [none |-> TRUE]

WhiteSpace == {" ", "\n"}
Chars == WhiteSpace \cup {"h"}
Strings == UNION {[1..n -> Chars] : n \in 0..MaxContentLen}

\* String.prototype.trim
RECURSIVE TrimStart(_)
TrimStart(s) ==
    IF s = <<>> THEN s
    ELSE IF Head(s) \in WhiteSpace THEN TrimStart(Tail(s)) ELSE s

RECURSIVE TrimEnd(_)
TrimEnd(s) ==
    IF s = <<>> THEN s
    ELSE IF s[Len(s)] \in WhiteSpace THEN TrimEnd(SubSeq(s, 1, Len(s) - 1)) ELSE s

\* Variant: the leading whitespace removed only.
Trim_startOnly(s) == TrimStart(s)

Trim(s) == TrimEnd(TrimStart(s))

\* A JavaScript value v as a condition: if (v), !v.
Truthy(v) ==
    CASE v.t = "undefined" -> FALSE
      [] v.t = "null"      -> FALSE
      [] v.t = "number"    -> v.n # 0
      [] v.t = "string"    -> v.s # <<>>

\* Variant: the empty string taken for a value.
TruthyText_definedOnly(t) == t # Undefined

\* A string that is passed on, as a condition.
TruthyText(t) == t \notin {Undefined, ""}

\* Variant: the key check left out.
KeyMissing_unchecked(key) == FALSE

\* if (!openAIApiKey)
KeyMissing(key) == ~TruthyText(key)

\* Variant: the method compared in the wrong case.
IsPreflight_lowerCase(method) == method = "options"

\* req.method === 'OPTIONS'
IsPreflight(method) == method = "OPTIONS"

corsHeaders ==
    ("Access-Control-Allow-Origin" :> "*") @@
    ("Access-Control-Allow-Headers" :> "authorization, x-client-info, apikey, content-type")

\* new Response(null, { headers: corsHeaders }): the status defaults to 200.
PreflightResponse ==
    [status |-> 200, body |-> [null |-> TRUE], headers |-> corsHeaders]

\* Variant: the content relayed as it came.
SuccessMessage_untrimmed(content) == content

\* The message field of the success body.
SuccessMessage(content) == Trim(content)

\* Variant: the success response with its own header only.
SuccessResponse_contentTypeOnly(content) ==
    [status |-> 200,
     body |-> [null |-> FALSE, success |-> TRUE, message |-> SuccessMessage(content)],
     headers |-> ("Content-Type" :> "application/json")]

\* The response of the success path.
SuccessResponse(content) ==
    [status |-> 200,
     body |-> [null |-> FALSE, success |-> TRUE, message |-> SuccessMessage(content)],
     headers |-> corsHeaders @@ ("Content-Type" :> "application/json")]

\* Variant: the catch block's response without its status.
ErrorResponse_defaultStatus(message) ==
    [status |-> 200,
     body |-> [null |-> FALSE, success |-> FALSE, error |-> message],
     headers |-> corsHeaders @@ ("Content-Type" :> "application/json")]

\* The response of the catch block.
ErrorResponse(message) ==
    [status |-> 500,
     body |-> [null |-> FALSE, success |-> FALSE, error |-> message],
     headers |-> corsHeaders @@ ("Content-Type" :> "application/json")]

systemPrompts ==
    [linkedin |-> "You are an expert at writing professional LinkedIn connection requests. Create concise, personalized messages that are warm but professional. Keep them under 300 characters (LinkedIn's limit). Focus on genuine interest and specific reasons for connecting.",
     informational |-> "You are an expert at writing professional informational interview requests. Create thoughtful, respectful emails that show genuine interest in learning. Include specific questions about their career journey and industry insights. Be humble and acknowledge their valuable time."]
    @@ ("recruiter-followup" :> "You are an expert at writing professional recruiter follow-up messages. Create engaging follow-ups that reiterate interest, highlight relevant qualifications, and maintain momentum in the conversation. Be enthusiastic but not pushy.")
    @@ ("mentor-request" :> "You are an expert at writing mentorship request messages. Create thoughtful, respectful requests that demonstrate genuine commitment to learning and growth. Show appreciation for their expertise and be specific about what kind of guidance you're seeking.")

\* systemPrompts[messageType]: undefined for a key the object does not have.
SystemPrompt(messageType) ==
    IF messageType \in DOMAIN systemPrompts THEN systemPrompts[messageType] ELSE Undefined

\* `${v}` in a template literal: an absent field reads "undefined".
Interp(v) == IF v = Undefined THEN "undefined" ELSE v

\* The user prompt, as the sequence of its pieces.
UserPrompt(f) ==
    <<"Please write a ",
      IF f.messageType = "linkedin" THEN "LinkedIn connection request" ELSE "professional email",
      " with the following details:\n\n- Message type: ", Interp(f.messageType),
      "\n- Recipient's name: ", Interp(f.recipientName),
      "\n- Company: ", Interp(f.company)>>
    \o (IF TruthyText(f.recipientTitle)
        THEN <<"\n- Recipient's title: ", f.recipientTitle>> ELSE <<>>)
    \o (IF TruthyText(f.purpose)
        THEN <<"\n- Purpose/context: ", f.purpose>> ELSE <<>>)
    \o <<"\n\nPlease make this message:\n- Personalized and genuine\n- Professional but approachable\n- Specific to their role and company\n- Concise and well-structured\n",
         IF f.messageType = "linkedin" THEN "- Under 300 characters for LinkedIn"
         ELSE "- Include a clear subject line if it's an email",
         "\n\nGenerate ONLY the message content, no additional explanations or formatting.">>

\* The fetch call: the chat-completion request sent to the model API.
OutboundRequest(key, f) ==
    [url |-> "https://api.openai.com/v1/chat/completions",
     method |-> "POST",
     authorization |-> <<"Bearer ", key>>,
     model |-> "gpt-5-2025-08-07",
     system |-> SystemPrompt(f.messageType),
     user |-> UserPrompt(f),
     max_completion_tokens |-> 500]

\* response.ok
ResponseOk(status) == status \in 200..299

\* `${response.status}`
StatusCode(status) ==
    CASE status = 200 -> "200"
      [] status = 429 -> "429"
      [] status = 500 -> "500"

StatusText(status) ==
    CASE status = 200 -> "OK"
      [] status = 429 -> "Too Many Requests"
      [] status = 500 -> "Internal Server Error"

\* Variant: the handler with its fields validated before the key check.
ServeStart_validating(r, key) ==
    IF IsPreflight(r.method)
    THEN [returns |-> PreflightResponse, read |-> FALSE, fetch |-> <<>>]
    ELSE IF r.body.json = "invalid"
    THEN [returns |-> ErrorResponse(<<"Unexpected token in JSON">>), read |-> TRUE, fetch |-> <<>>]
    ELSE IF r.body.json = "null"
    THEN [returns |-> ErrorResponse(<<"Cannot destructure property 'messageType' of null">>),
          read |-> TRUE, fetch |-> <<>>]
    ELSE IF r.body.fields.messageType \notin DOMAIN systemPrompts
    THEN [returns |-> ErrorResponse(<<"Invalid message type">>), read |-> TRUE, fetch |-> <<>>]
    ELSE IF KeyMissing(key)
    THEN [returns |-> ErrorResponse(<<"OpenAI API key not configured">>),
          read |-> TRUE, fetch |-> <<>>]
    ELSE [returns |-> None, read |-> TRUE, fetch |-> <<OutboundRequest(key, r.body.fields)>>]

(***************************************************************************)
(* The handler up to its fetch call: what it returns, or the fetch it      *)
(* issues.  r is the request: its method and its body, which is not JSON   *)
(* ("invalid"), the JSON value null, or a JSON object with fields.         *)
(***************************************************************************)
ServeStart(r, key) ==
    IF IsPreflight(r.method)
    THEN [returns |-> PreflightResponse, read |-> FALSE, fetch |-> <<>>]
    ELSE IF r.body.json = "invalid"
    THEN [returns |-> ErrorResponse(<<"Unexpected token in JSON">>), read |-> TRUE, fetch |-> <<>>]
    ELSE IF r.body.json = "null"
    THEN [returns |-> ErrorResponse(<<"Cannot destructure property 'messageType' of null">>),
          read |-> TRUE, fetch |-> <<>>]
    ELSE IF KeyMissing(key)
    THEN [returns |-> ErrorResponse(<<"OpenAI API key not configured">>),
          read |-> TRUE, fetch |-> <<>>]
    ELSE [returns |-> None, read |-> TRUE, fetch |-> <<OutboundRequest(key, r.body.fields)>>]

(***************************************************************************)
(* The handler after its fetch call settled with u: the fetch threw, or    *)
(* it answered with a status and a body that is not JSON ("invalid") or    *)
(* is JSON data of one of the shapes the handler tells apart.              *)
(***************************************************************************)
ServeFinish(u) ==
    IF u.kind = "throws"
    THEN ErrorResponse(<<"error sending request">>)
    ELSE IF ~ResponseOk(u.status)
    THEN ErrorResponse(<<"OpenAI API error: ", StatusCode(u.status), " ", StatusText(u.status)>>)
    ELSE IF u.data.shape = "invalid"
    THEN ErrorResponse(<<"Unexpected token in JSON">>)
    ELSE IF u.data.shape = "null"
    THEN ErrorResponse(<<"Cannot read properties of null (reading 'choices')">>)
    ELSE IF u.data.shape \in {"noChoices", "emptyChoices", "noMessage"}
    THEN ErrorResponse(<<"Invalid response structure from OpenAI">>)
    ELSE IF ~Truthy(u.data.content)
    THEN ErrorResponse(<<"OpenAI returned an empty message">>)
    ELSE IF u.data.content.t # "string"
    THEN ErrorResponse(<<"generatedMessage.trim is not a function">>)
    ELSE IF Trim(u.data.content.s) = <<>>
    THEN ErrorResponse(<<"OpenAI returned an empty message">>)
    ELSE SuccessResponse(u.data.content.s)

\* The values of openAIApiKey, of the requests and of the upstream answers.
KeyValues == {Undefined, "", "sk-test"}

FieldSets ==
    [messageType : {"linkedin", "informational", "sms"},
     recipientName : {Undefined, "Sarah"},
     recipientTitle : {Undefined, "CTO"},
     company : {Undefined, "Initech"},
     purpose : {"", "Alumni"}]

Requests ==
    [method : {"OPTIONS", "POST"},
     body : {[json |-> "invalid"], [json |-> "null"]}
            \cup {[json |-> "object", fields |-> f] : f \in FieldSets}]

ContentValues ==
    {[t |-> "undefined"], [t |-> "null"]}
    \cup {[t |-> "number", n |-> n] : n \in {0, 5}}
    \cup {[t |-> "string", s |-> s] : s \in Strings}

UpstreamData ==
    {[shape |-> sh] : sh \in {"invalid", "null", "noChoices", "emptyChoices", "noMessage"}}
    \cup {[shape |-> "message", content |-> c] : c \in ContentValues}

UpstreamOutcomes ==
    {[kind |-> "throws"]}
    \cup {[kind |-> "response", status |-> st, data |-> [shape |-> "invalid"]] : st \in {429, 500}}
    \cup {[kind |-> "response", status |-> 200, data |-> d] : d \in UpstreamData}

\* No request was received yet.
EdgeIdle ==
    /\ pc = "idle"
    /\ req = None
    /\ bodyRead = FALSE
    /\ outbound = <<>>
    /\ upstream = None
    /\ response = None

EdgeInit ==
    /\ openAIApiKey \in KeyValues
    /\ EdgeIdle

\* The function deployed without its secret.
EdgeInitNoKey ==
    /\ openAIApiKey = Undefined
    /\ EdgeIdle

\* The handler is invoked for a request.  Invocations share nothing but the
\* key, so the model follows one at a time.
Receive(r) ==
    /\ pc \in {"idle", "done"}
    /\ LET s == ServeStart(r, openAIApiKey)
       IN  /\ req' = r
           /\ bodyRead' = s.read
           /\ outbound' = s.fetch
           /\ upstream' = None
           /\ response' = s.returns
           /\ pc' = IF s.fetch = <<>> THEN "done" ELSE "awaitFetch"
    /\ UNCHANGED openAIApiKey
    /\ UNCHANGED nonEdgeVars

\* The fetch settles and the handler runs to its return.
FetchSettles(u) ==
    /\ pc = "awaitFetch"
    /\ upstream' = u
    /\ response' = ServeFinish(u)
    /\ pc' = "done"
    /\ UNCHANGED <<openAIApiKey, req, bodyRead, outbound>>
    /\ UNCHANGED nonEdgeVars

EdgeStep ==
    \/ \E r \in Requests : Receive(r)
    \/ \E u \in UpstreamOutcomes : FetchSettles(u)

(***************************************************************************)
(* The NetworkingCoach component (src/components/NetworkingCoach.tsx).     *)
(*                                                                         *)
(* A template is a template literal: the sequence of its literal pieces    *)
(* and of the `${data.field}` placeholders between them.  The bullet       *)
(* character of the source is written * here.                              *)
(***************************************************************************)
Lit(t) == [lit |-> t]
Field(f) == [field |-> f]

linkedinPattern ==
    <<Lit("Hi "),
      Field("recipientName"),
      Lit(",\n\nI'm a student and came across your profile. I was impressed by your work at "),
      Field("company"),
      Lit(". "),
      Field("purpose"),
      Lit("\n\nI'd love to connect and learn from your experience in the field.\n\nBest regards")>>

informationalPattern ==
    <<Lit("Subject: Informational Interview Request\n\nDear "),
      Field("recipientName"),
      Lit(",\n\nI hope this email finds you well. I'm a student and discovered your profile through LinkedIn. I was impressed by your career journey at "),
      Field("company"),
      Lit(".\n\n"),
      Field("purpose"),
      Lit("\n\nI would be incredibly grateful for 15-20 minutes of your time to learn about your experience and gain insights into the industry. I'm particularly interested in understanding:\n\n* Your career path and key decisions\n* Advice for someone entering the field\n* Current trends and challenges in the industry\n\nI'm flexible with timing and happy to work around your schedule. Would a brief phone call or video chat be possible in the coming weeks?\n\nThank you for considering my request. I understand you have a busy schedule and truly appreciate any time you can spare.\n\nBest regards")>>

recruiterFollowupPattern ==
    <<Lit("Subject: Following up on our conversation\n\nHi "),
      Field("recipientName"),
      Lit(",\n\nThank you for taking the time to speak with me about opportunities at "),
      Field("company"),
      Lit(". "),
      Field("purpose"),
      Lit("\n\nI wanted to follow up and reiterate my strong interest in joining your team. Based on our conversation, I'm even more excited about the possibility of contributing to "),
      Field("company"),
      Lit("'s mission.\n\nI've attached my updated resume and would be happy to provide any additional information you might need. Please let me know if there are any next steps I should be aware of.\n\nI look forward to hearing from you.\n\nBest regards")>>

mentorRequestPattern ==
    <<Lit("Subject: Mentorship Opportunity\n\nDear "),
      Field("recipientName"),
      Lit(",\n\nI hope you're doing well. I'm a student and came across your profile. I was inspired by your career achievements at "),
      Field("company"),
      Lit(".\n\n"),
      Field("purpose"),
      Lit("\n\nI'm writing to inquire about the possibility of a mentoring relationship. I'm passionate about growing in this field and would greatly value guidance from someone with your experience and expertise.\n\nI understand that mentoring is a significant commitment, and I want to assure you that I would:\n\n* Come prepared to our conversations with specific questions\n* Respect your time and schedule\n* Take action on the advice you provide\n* Keep you updated on my progress\n\nWould you be open to a brief conversation to discuss this possibility? I'm happy to accommodate your schedule and preferred communication method.\n\nThank you for considering this request.\n\nRespectfully")>>

messageTemplates ==
    [linkedin |-> linkedinPattern, informational |-> informationalPattern]
    @@ ("recruiter-followup" :> recruiterFollowupPattern)
    @@ ("mentor-request" :> mentorRequestPattern)

\* Variant: the title substituted where the name belongs.
Template_titleForName(pattern, data) ==
    [i \in 1..Len(pattern) |->
        IF "lit" \in DOMAIN pattern[i] THEN pattern[i].lit
        ELSE IF pattern[i].field = "recipientName" THEN data.recipientTitle
        ELSE data[pattern[i].field]]

\* template.template(data): the value of the template literal, piece by piece.
Template(pattern, data) ==
    [i \in 1..Len(pattern) |->
        IF "lit" \in DOMAIN pattern[i] THEN pattern[i].lit ELSE data[pattern[i].field]]

\* const isFormValid = messageData.recipientName && messageData.company
isFormValid(data) == data.recipientName # "" /\ data.company # ""

\* Variant: a handler that asks the edge function before it shows a message.
handleGenerateResult_invoking(data) ==
    [generatedMessage |-> Template(messageTemplates[data.messageType], data),
     activeStep |-> 3,
     requests |-> <<[function |-> "generate-networking-message", body |-> data]>>]

\* handleGenerate: the state it sets, and the requests it issues (none).
handleGenerateResult(data) ==
    [generatedMessage |-> Template(messageTemplates[data.messageType], data),
     activeStep |-> 3,
     requests |-> <<>>]

\* What the user can select and type.
MessageTypes == DOMAIN messageTemplates
RecipientNames == {"", "Sarah"}
RecipientTitles == {"", "CTO"}
Companies == {"", "Initech"}
Purposes == {"", "Alumni"}

CoachInit ==
    /\ messageData = [recipientName |-> "", recipientTitle |-> "", company |-> "",
                      purpose |-> "", messageType |-> "linkedin"]
    /\ generatedMessage = <<>>
    /\ activeStep = 1
    /\ invocations = <<>>
    /\ lastGen = None
    /\ prevGen = None

\* A click on a message type button.
SelectMessageType(key) ==
    /\ messageData' = [messageData EXCEPT !.messageType = key]
    /\ activeStep' = IF activeStep >= 1 THEN activeStep ELSE 1
    /\ UNCHANGED <<generatedMessage, invocations, lastGen, prevGen>>
    /\ UNCHANGED nonCoachVars

\* onChange of the recipient name input.
ChangeRecipientName(v) ==
    /\ messageData' = [messageData EXCEPT !.recipientName = v]
    /\ activeStep' = IF v # "" /\ activeStep < 2 THEN 2 ELSE activeStep
    /\ UNCHANGED <<generatedMessage, invocations, lastGen, prevGen>>
    /\ UNCHANGED nonCoachVars

\* onChange of the other inputs.
ChangeRecipientTitle(v) ==
    /\ messageData' = [messageData EXCEPT !.recipientTitle = v]
    /\ UNCHANGED <<generatedMessage, activeStep, invocations, lastGen, prevGen>>
    /\ UNCHANGED nonCoachVars

ChangeCompany(v) ==
    /\ messageData' = [messageData EXCEPT !.company = v]
    /\ UNCHANGED <<generatedMessage, activeStep, invocations, lastGen, prevGen>>
    /\ UNCHANGED nonCoachVars

ChangePurpose(v) ==
    /\ messageData' = [messageData EXCEPT !.purpose = v]
    /\ UNCHANGED <<generatedMessage, activeStep, invocations, lastGen, prevGen>>
    /\ UNCHANGED nonCoachVars

\* A click on Generate Message; the button is disabled while the form is not valid.
handleGenerate ==
    /\ isFormValid(messageData)
    /\ LET r == handleGenerateResult(messageData)
       IN  /\ generatedMessage' = r.generatedMessage
           /\ activeStep' = r.activeStep
           /\ invocations' = invocations \o r.requests
           /\ lastGen' = [data |-> messageData, message |-> r.generatedMessage]
    /\ prevGen' = lastGen
    /\ UNCHANGED messageData
    /\ UNCHANGED nonCoachVars

CoachStep ==
    \/ \E key \in MessageTypes : SelectMessageType(key)
    \/ \E v \in RecipientNames : ChangeRecipientName(v)
    \/ \E v \in RecipientTitles : ChangeRecipientTitle(v)
    \/ \E v \in Companies : ChangeCompany(v)
    \/ \E v \in Purposes : ChangePurpose(v)
    \/ handleGenerate

(***************************************************************************)
(* The MessageHistory component.                                           *)
(*                                                                         *)
(* A handler runs to its first await when the user clicks; the database    *)
(* then serves the call (or the call fails), and the handler resumes with  *)
(* the result.  Other clicks and other calls may come in between.          *)
(***************************************************************************)
MaxInflight == 2
\* The clicks on Copy and Favorite that are followed.
MaxClicks == 2

\* The user of the page's session: auth.uid() of its calls.
SessionUser == 1

\* The calls in flight are a bag: two clicks on one card send two equal calls.
Pending == BagToSet(calls)
Sent(call) == calls (+) SetToBag({call})
Settled(call) == calls (-) SetToBag({call})

\* .order('created_at', { ascending: false }): the rows in an order that is
\* descending in created_at; rows with equal created_at come in any order.
OrderedByCreatedAtDesc(rows) ==
    {q \in [1..Cardinality(rows) -> rows] :
        /\ \A i, j \in DOMAIN q : i # j => q[i] # q[j]
        /\ \A i, j \in DOMAIN q : i < j => q[i].created_at >= q[j].created_at}

\* prev.filter(m => m.id !== message.id)
FilterOut(prev, id) == SelectSeq(prev, LAMBDA m : m.id # id)

\* Variant: the list updated optimistically, whatever the result.
deleteMessageResume_optimistic(prev, message, error) ==
    [messages |-> FilterOut(prev, message.id), toast |-> "Message deleted"]

\* deleteMessage after its await: the list and the toast.
deleteMessageResume(prev, message, error) ==
    IF error
    THEN [messages |-> prev, toast |-> "Delete failed"]
    ELSE [messages |-> FilterOut(prev, message.id), toast |-> "Message deleted"]

\* loadMessages after its await: data || [] on success, a toast on error.
loadMessagesResume(prev, data, error) ==
    IF error
    THEN [messages |-> prev, toast |-> "Error loading messages"]
    ELSE [messages |-> data, toast |-> ""]

\* What a stored message may hold: is_favorite has its DEFAULT; the session
\* user's rows vary in created_at, which orders the page; another user's rows
\* are never shown to the session user.
StoredRows ==
    [user_id : {SessionUser}, is_favorite : {FALSE}, created_at : Times]
        \cup [user_id : UserIds \ {SessionUser}, is_favorite : {FALSE}, created_at : {1}]

\* The rows of a database in which UserIds signed up and wrote messages.
StoredMessages ==
    {{[id |-> i, user_id |-> f[i].row.user_id, message_type |-> "linkedin",
       is_favorite |-> f[i].row.is_favorite, created_at |-> f[i].row.created_at] :
          i \in {j \in MsgIds : f[j].stored}} :
       f \in [MsgIds -> [stored : BOOLEAN, row : StoredRows]]}

\* The component was mounted: its effect called loadMessages, which awaits
\* the select.
HistoryInit ==
    /\ messages = <<>>
    /\ loading = TRUE
    /\ toast = ""
    /\ calls = SetToBag({[op |-> "load", stage |-> "request"]})
    /\ lastDelete = None
    /\ copiedId = NULL
    /\ timers = 0
    /\ lastCopy = None
    /\ clipboardOk = {}
    /\ lastToggle = None
    /\ clicks = 0

\* The page is not open.
HistoryOff ==
    /\ messages = <<>>
    /\ loading = TRUE
    /\ toast = ""
    /\ calls = EmptyBag
    /\ lastDelete = None
    /\ copiedId = NULL
    /\ timers = 0
    /\ lastCopy = None
    /\ clipboardOk = {}
    /\ lastToggle = None
    /\ clicks = 0

\* The database when the page is opened.
DbPopulated ==
    /\ authUsers = UserIds
    /\ profiles = {[id |-> u, user_id |-> u, full_name |-> "Ann"] : u \in UserIds}
    /\ networking_messages \in StoredMessages
    /\ message_analytics = {}

\* The select of loadMessages is served: the rows the SELECT policy shows, in
\* order; or the call fails.
LoadServed(fails) ==
    \E c \in Pending :
    /\ c.op = "load" /\ c.stage = "request"
    /\ \E data \in OrderedByCreatedAtDesc(SelectMessages(SessionUser, networking_messages)) :
          calls' = (calls (-) SetToBag({c})) (+)
                     SetToBag({[op |-> "load", stage |-> "response", error |-> fails,
                                data |-> IF fails THEN <<>> ELSE data]})
    /\ UNCHANGED <<messages, loading, toast, lastDelete>>
    /\ UNCHANGED dbVars
    /\ UNCHANGED <<copyVars, favoriteVars, clicks>>
    /\ UNCHANGED nonHistoryVars

\* loadMessages resumes; finally setLoading(false).
LoadResumes ==
    \E c \in Pending :
    /\ c.op = "load" /\ c.stage = "response"
    /\ LET r == loadMessagesResume(messages, c.data, c.error)
       IN  /\ messages' = r.messages
           /\ toast' = IF r.toast = "" THEN toast ELSE r.toast
    /\ loading' = FALSE
    /\ calls' = Settled(c)
    /\ UNCHANGED lastDelete
    /\ UNCHANGED dbVars
    /\ UNCHANGED <<copyVars, favoriteVars, clicks>>
    /\ UNCHANGED nonHistoryVars

\* A click on the Delete button of the i-th card: deleteMessage(message)
\* sends its delete and awaits it.
DeleteClicked(i) ==
    /\ ~loading
    /\ i \in 1..Len(messages)
    /\ BagCardinality(calls) < MaxInflight
    /\ calls' = Sent([op |-> "delete", stage |-> "request", message |-> messages[i]])
    /\ UNCHANGED <<messages, loading, toast, lastDelete>>
    /\ UNCHANGED dbVars
    /\ UNCHANGED <<copyVars, favoriteVars, clicks>>
    /\ UNCHANGED nonHistoryVars

\* The delete is served.  outcome "ok": the statement ran and its result
\* came back; "failed": the call failed before the statement ran; "lost":
\* the statement ran and the call failed after it.
DeleteServed(outcome) ==
    \E c \in Pending :
    /\ c.op = "delete" /\ c.stage = "request"
    /\ LET hit == DeleteMessageHit(SessionUser, c.message.id, networking_messages)
       IN  IF outcome = "failed"
           THEN UNCHANGED <<networking_messages, message_analytics>>
           ELSE /\ networking_messages' = networking_messages \ hit
                /\ message_analytics' = CascadeMessageDelete(message_analytics, Ids(hit))
    /\ calls' = (calls (-) SetToBag({c})) (+)
                   SetToBag({[op |-> "delete", stage |-> "response", message |-> c.message,
                              error |-> outcome # "ok"]})
    /\ UNCHANGED <<authUsers, profiles>>
    /\ UNCHANGED <<messages, loading, toast, lastDelete>>
    /\ UNCHANGED <<copyVars, favoriteVars, clicks>>
    /\ UNCHANGED nonHistoryVars

\* deleteMessage resumes with the result.
DeleteResumes ==
    \E c \in Pending :
    /\ c.op = "delete" /\ c.stage = "response"
    /\ LET r == deleteMessageResume(messages, c.message, c.error)
       IN  /\ messages' = r.messages
           /\ toast' = r.toast
           /\ lastDelete' = [target |-> c.message.id, error |-> c.error,
                             before |-> messages, after |-> r.messages, toast |-> r.toast]
    /\ calls' = Settled(c)
    /\ UNCHANGED loading
    /\ UNCHANGED dbVars
    /\ UNCHANGED <<copyVars, favoriteVars, clicks>>
    /\ UNCHANGED nonHistoryVars

HistoryStep ==
    \/ \E fails \in BOOLEAN : LoadServed(fails)
    \/ LoadResumes
    \/ \E i \in 1..MaxMsgIds : DeleteClicked(i)
    \/ \E outcome \in {"ok", "failed", "lost"} : DeleteServed(outcome)
    \/ DeleteResumes

(***************************************************************************)
(* MessageHistory: toggleFavorite.                                         *)
(***************************************************************************)
\* .update({ is_favorite: .. }).eq('id', mid): the other columns keep their
\* values.
UpdateFavoriteResult(uid, mid, newFav, tbl, users) ==
    IF mid \in Ids(tbl)
    THEN UpdateMessageResult(uid, mid, (CHOOSE r \in tbl : r.id = mid).user_id, newFav, tbl, users)
    ELSE tbl

\* The insert that tracks an action: the id is the column's DEFAULT.
TrackedRow(mid, action, tbl) ==
    [id |-> CHOOSE a \in AnalyticsIds : a \notin Ids(tbl),
     user_id |-> SessionUser, message_id |-> mid, action_type |-> action]

TrackResult(mid, action, tbl, users, msgs) ==
    InsertAnalyticsResult(SessionUser, TrackedRow(mid, action, tbl), tbl, users, msgs)

\* prev.map(m => m.id === message.id ? { ...m, is_favorite: !m.is_favorite } : m)
ToggleInList(prev, message) ==
    [i \in 1..Len(prev) |->
        IF prev[i].id = message.id
        THEN [prev[i] EXCEPT !.is_favorite = ~prev[i].is_favorite]
        ELSE prev[i]]

\* Variant: the list updated before the result is looked at.
toggleFavoriteResume_optimistic(prev, message, error) ==
    [messages |-> ToggleInList(prev, message), tracks |-> ~error,
     title |-> IF error THEN "Error" ELSE "",
     description |-> IF error THEN "Failed to update favorite status." ELSE ""]

\* toggleFavorite after the await of its update: the list, whether it goes on
\* to track the action, and the toast of the catch block.
toggleFavoriteResume(prev, message, error) ==
    IF error
    THEN [messages |-> prev, tracks |-> FALSE,
          title |-> "Error", description |-> "Failed to update favorite status."]
    ELSE [messages |-> ToggleInList(prev, message), tracks |-> TRUE,
          title |-> "", description |-> ""]

\* A click on the Favorite button of the i-th card: toggleFavorite(message)
\* sends its update, with the value of the card negated, and awaits it.
ToggleClicked(i) ==
    /\ ~loading
    /\ i \in 1..Len(messages)
    /\ BagCardinality(calls) < MaxInflight
    /\ clicks < MaxClicks
    /\ clicks' = clicks + 1
    /\ calls' = Sent([op |-> "toggle", stage |-> "request", message |-> messages[i]])
    /\ UNCHANGED <<messages, loading, toast, lastDelete, copyVars, favoriteVars>>
    /\ UNCHANGED dbVars
    /\ UNCHANGED nonHistoryVars

\* The update is served: "ok", "failed" or "lost", as for the delete.
ToggleServed(outcome) ==
    \E c \in Pending :
    /\ c.op = "toggle" /\ c.stage = "request"
    /\ networking_messages' =
          IF outcome = "failed" THEN networking_messages
          ELSE UpdateFavoriteResult(SessionUser, c.message.id, ~c.message.is_favorite,
                                    networking_messages, authUsers)
    /\ calls' = (calls (-) SetToBag({c})) (+)
                   SetToBag({[op |-> "toggle", stage |-> "response", message |-> c.message,
                              error |-> outcome # "ok"]})
    /\ UNCHANGED <<authUsers, profiles, message_analytics>>
    /\ UNCHANGED <<messages, loading, toast, lastDelete, copyVars, favoriteVars, clicks>>
    /\ UNCHANGED nonHistoryVars

\* toggleFavorite resumes with the result of the update; without an error it
\* sends the insert that tracks the action and awaits it.
ToggleResumes ==
    \E c \in Pending :
    /\ c.op = "toggle" /\ c.stage = "response"
    /\ LET r == toggleFavoriteResume(messages, c.message, c.error)
       IN  /\ messages' = r.messages
           /\ toast' = IF r.title = "" THEN toast ELSE r.title
           /\ lastToggle' = [target |-> c.message.id, error |-> c.error,
                             title |-> r.title, description |-> r.description,
                             failed |-> c.error \/ (lastToggle # None /\ lastToggle.failed)]
           /\ calls' = IF r.tracks
                       THEN Settled(c) (+) SetToBag({[op |-> "toggle", stage |-> "track",
                                                      message |-> c.message]})
                       ELSE Settled(c)
    /\ UNCHANGED <<loading, lastDelete, copyVars, clicks>>
    /\ UNCHANGED dbVars
    /\ UNCHANGED nonHistoryVars

\* The tracking insert is served, or fails; its result is not looked at.
ToggleTracked(reaches) ==
    \E c \in Pending :
    /\ c.op = "toggle" /\ c.stage = "track"
    /\ reaches => AnalyticsIds \ Ids(message_analytics) # {}
    /\ message_analytics' =
          IF reaches
          THEN TrackResult(c.message.id, "favorited", message_analytics, authUsers,
                           networking_messages)
          ELSE message_analytics
    /\ calls' = Settled(c) (+) SetToBag({[op |-> "toggle", stage |-> "tracked",
                                          message |-> c.message]})
    /\ UNCHANGED <<authUsers, profiles, networking_messages>>
    /\ UNCHANGED <<messages, loading, toast, lastDelete, copyVars, favoriteVars, clicks>>
    /\ UNCHANGED nonHistoryVars

\* toggleFavorite resumes after the insert and shows its toast.
ToggleFinishes ==
    \E c \in Pending :
    /\ c.op = "toggle" /\ c.stage = "tracked"
    /\ toast' = IF c.message.is_favorite THEN "Removed from favorites" ELSE "Added to favorites"
    /\ calls' = Settled(c)
    /\ UNCHANGED <<messages, loading, lastDelete, copyVars, favoriteVars, clicks>>
    /\ UNCHANGED dbVars
    /\ UNCHANGED nonHistoryVars

FavoriteStep ==
    \/ \E fails \in BOOLEAN : LoadServed(fails)
    \/ LoadResumes
    \/ \E i \in 1..MaxMsgIds : ToggleClicked(i)
    \/ \E outcome \in {"ok", "failed", "lost"} : ToggleServed(outcome)
    \/ ToggleResumes
    \/ \E reaches \in BOOLEAN : ToggleTracked(reaches)
    \/ ToggleFinishes

(***************************************************************************)
(* MessageHistory: handleCopy.                                             *)
(***************************************************************************)
\* Variant: the action tracked whether or not the text was copied.
handleCopyResume_tracksAlways(copied, message, written) ==
    [copiedId |-> IF written THEN message.id ELSE copied,
     timer |-> written, tracks |-> TRUE,
     toast |-> IF written THEN "" ELSE "Copy failed"]

\* handleCopy after the await of navigator.clipboard.writeText: copiedId,
\* whether the timeout is set and the action tracked, and the toast of the
\* catch block.
handleCopyResume(copied, message, written) ==
    IF written
    THEN [copiedId |-> message.id, timer |-> TRUE, tracks |-> TRUE, toast |-> ""]
    ELSE [copiedId |-> copied, timer |-> FALSE, tracks |-> FALSE, toast |-> "Copy failed"]

\* A click on the Copy button of the i-th card: handleCopy(message) calls
\* navigator.clipboard.writeText and awaits it.
CopyClicked(i) ==
    /\ ~loading
    /\ i \in 1..Len(messages)
    /\ BagCardinality(calls) < MaxInflight
    /\ clicks < MaxClicks
    /\ clicks' = clicks + 1
    /\ calls' = Sent([op |-> "copy", stage |-> "clipboard", message |-> messages[i]])
    /\ UNCHANGED <<messages, loading, toast, lastDelete, copyVars, favoriteVars>>
    /\ UNCHANGED dbVars
    /\ UNCHANGED nonHistoryVars

\* The clipboard write settles and handleCopy resumes: after a write that
\* succeeded it sets copiedId and the timeout, sends the insert that tracks
\* the action and awaits it.
ClipboardSettles(written) ==
    \E c \in Pending :
    /\ c.op = "copy" /\ c.stage = "clipboard"
    /\ LET r == handleCopyResume(copiedId, c.message, written)
       IN  /\ copiedId' = r.copiedId
           /\ timers' = IF r.timer THEN timers + 1 ELSE timers
           /\ toast' = IF r.toast = "" THEN toast ELSE r.toast
           /\ lastCopy' = [target |-> c.message.id, written |-> written,
                           copiedBefore |-> copiedId, copiedAfter |-> r.copiedId,
                           toast |-> r.toast, tracks |-> r.tracks]
           /\ clipboardOk' = IF written THEN clipboardOk \cup {c.message.id} ELSE clipboardOk
           /\ calls' = IF r.tracks
                       THEN Settled(c) (+) SetToBag({[op |-> "copy", stage |-> "track",
                                                      message |-> c.message]})
                       ELSE Settled(c)
    /\ UNCHANGED <<messages, loading, lastDelete, favoriteVars, clicks>>
    /\ UNCHANGED dbVars
    /\ UNCHANGED nonHistoryVars

\* setTimeout(() => setCopiedId(null), 2000)
CopyTimeout ==
    /\ timers > 0
    /\ timers' = timers - 1
    /\ copiedId' = NULL
    /\ UNCHANGED <<lastCopy, clipboardOk>>
    /\ UNCHANGED <<messages, loading, toast, calls, lastDelete, favoriteVars, clicks>>
    /\ UNCHANGED dbVars
    /\ UNCHANGED nonHistoryVars

\* The tracking insert is served, or fails; its result is not looked at.
CopyTracked(reaches) ==
    \E c \in Pending :
    /\ c.op = "copy" /\ c.stage = "track"
    /\ reaches => AnalyticsIds \ Ids(message_analytics) # {}
    /\ message_analytics' =
          IF reaches
          THEN TrackResult(c.message.id, "copied", message_analytics, authUsers,
                           networking_messages)
          ELSE message_analytics
    /\ calls' = Settled(c) (+) SetToBag({[op |-> "copy", stage |-> "tracked",
                                          message |-> c.message]})
    /\ UNCHANGED <<authUsers, profiles, networking_messages>>
    /\ UNCHANGED <<messages, loading, toast, lastDelete, copyVars, favoriteVars, clicks>>
    /\ UNCHANGED nonHistoryVars

\* handleCopy resumes after the insert and shows its toast.
CopyFinishes ==
    \E c \in Pending :
    /\ c.op = "copy" /\ c.stage = "tracked"
    /\ toast' = "Message copied!"
    /\ calls' = Settled(c)
    /\ UNCHANGED <<messages, loading, lastDelete, copyVars, favoriteVars, clicks>>
    /\ UNCHANGED dbVars
    /\ UNCHANGED nonHistoryVars

CopyStep ==
    \/ \E fails \in BOOLEAN : LoadServed(fails)
    \/ LoadResumes
    \/ \E i \in 1..MaxMsgIds : CopyClicked(i)
    \/ \E written \in BOOLEAN : ClipboardSettles(written)
    \/ CopyTimeout
    \/ \E reaches \in BOOLEAN : CopyTracked(reaches)
    \/ CopyFinishes

(***************************************************************************)
(* The specifications.                                                     *)
(***************************************************************************)
Init == DbInit /\ EdgeInit /\ CoachInit /\ HistoryOff
InitDb == DbInit /\ EdgeInitNoKey /\ CoachInit /\ HistoryOff
InitHistory == DbPopulated /\ EdgeInitNoKey /\ CoachInit /\ HistoryInit

NextDb == DbStep
NextEdge == EdgeStep
NextCoach == CoachStep
NextHistory == HistoryStep
NextFavorites == FavoriteStep
NextCopy == CopyStep

Next == NextDb \/ NextEdge \/ NextCoach \/ NextHistory \/ NextFavorites \/ NextCopy

Spec == Init /\ [][Next]_vars
SpecDb == InitDb /\ [][NextDb]_vars
SpecEdge == Init /\ [][NextEdge]_vars
SpecCoach == InitDb /\ [][NextCoach]_vars
SpecHistory == InitHistory /\ [][NextHistory]_vars
SpecFavorites == InitHistory /\ [][NextFavorites]_vars
SpecCopy == InitHistory /\ [][NextCopy]_vars

(***************************************************************************)
(* Claims about the schema.                                                *)
(***************************************************************************)
\* What user a reads: SELECT * on each of the three tables.
View(a) ==
    <<SelectProfiles(a, profiles), SelectMessages(a, networking_messages),
      SelectAnalytics(a, message_analytics)>>

\* The rows of the three tables that are owned by somebody other than b.
OthersRows(b) ==
    <<{r \in profiles : r.user_id # b}, {r \in networking_messages : r.user_id # b},
      {r \in message_analytics : r.user_id # b}>>

\* C1: a SELECT issued by user a returns only rows whose user_id is a, and
\* no statement issued by another user (or without a session) changes what
\* a reads: states that differ only by other users' statements are
\* indistinguishable to a.
C1_ReadsIndependentOfOthers ==
    [][\A a \in UserIds :
         /\ \A r \in View(a)[1] \cup View(a)[2] \cup View(a)[3] : r.user_id = a
         /\ (\E b \in (UserIds \cup {NULL}) \ {a} : Statement(b)) => View(a)' = View(a)]_vars

\* C2: no statement issued by user b creates, changes or removes a row whose
\* user_id is another user's id, the rows removed by ON DELETE CASCADE included.
C2_MutationRestrictedToOwner ==
    [][\A b \in UserIds : Statement(b) => OthersRows(b)' = OthersRows(b)]_vars

\* C8: every existing auth user has exactly one profiles row with its id.
C8_OneProfilePerUser ==
    \A u \in authUsers : Cardinality({p \in profiles : p.user_id = u}) = 1

\* Two users signed up, one changed its profile's name after the other's, and
\* messages and analytics rows were written.
C8_Witness ==
    /\ authUsers = UserIds
    /\ \E p, q \in profiles : p.full_name # q.full_name
    /\ networking_messages # {}
    /\ message_analytics # {}

(***************************************************************************)
(* Claims about the edge function.                                         *)
(***************************************************************************)
\* The request was handled to its end and was no preflight.
Handled == pc = "done" /\ req.method # "OPTIONS"

\* The fetch answered OK with choices[0].message.content a string.
UpstreamContent ==
    /\ upstream # None
    /\ upstream.kind = "response"
    /\ upstream.status \in 200..299
    /\ upstream.data.shape = "message"
    /\ upstream.data.content.t = "string"

NonBlank(s) == \E i \in 1..Len(s) : s[i] \notin WhiteSpace

\* m is c without its leading and trailing whitespace.
IsTrimOf(m, c) ==
    \E i, j \in 1..Len(c) :
        /\ i <= j
        /\ c[i] \notin WhiteSpace /\ c[j] \notin WhiteSpace
        /\ \A k \in 1..Len(c) : (k < i \/ k > j) => c[k] \in WhiteSpace
        /\ m = SubSeq(c, i, j)

\* C3: for a non-OPTIONS request whose body parsed as JSON, with the key
\* configured, when the upstream answers OK with content that is not blank,
\* the response has status 200 and body {success: true, message: M}, M being
\* the content without its leading and trailing whitespace.
C3_RelaysTrimmedContent ==
    (/\ Handled
     /\ req.body.json # "invalid"
     /\ openAIApiKey \notin {Undefined, ""}
     /\ UpstreamContent
     /\ NonBlank(upstream.data.content.s))
    => /\ response.status = 200
       /\ DOMAIN response.body = {"null", "success", "message"}
       /\ response.body.null = FALSE
       /\ response.body.success = TRUE
       /\ IsTrimOf(response.body.message, upstream.data.content.s)

\* A success response whose content had whitespace on both sides.
C3_Witness ==
    /\ Handled
    /\ UpstreamContent
    /\ upstream.data.content.s = <<" ", "h", "\n">>
    /\ response.status = 200
    /\ response.body.message = <<"h">>

\* The failures the claim lists.
ListedFailure ==
    \/ req.body.json = "invalid"
    \/ openAIApiKey \in {Undefined, ""}
    \/ /\ upstream # None
       /\ \/ upstream.kind = "throws"
          \/ /\ upstream.kind = "response"
             /\ \/ upstream.status \notin 200..299
                \/ upstream.data.shape \in {"noChoices", "emptyChoices", "noMessage"}
                \/ /\ upstream.data.shape = "message"
                   /\ \/ upstream.data.content.t \in {"undefined", "null"}
                      \/ /\ upstream.data.content.t = "string"
                         /\ ~NonBlank(upstream.data.content.s)

IsErrorShape(r) ==
    /\ r.status = 500
    /\ DOMAIN r.body = {"null", "success", "error"}
    /\ r.body.null = FALSE
    /\ r.body.success = FALSE

IsSuccessShape(r) ==
    /\ r.status # 500
    /\ DOMAIN r.body = {"null", "success", "message"}
    /\ r.body.null = FALSE
    /\ r.body.success = TRUE

\* C4: for a non-OPTIONS request every listed failure yields status 500 with
\* body {success: false, error}; a failure never yields success: true, a
\* success never has status 500, and the response has exactly one of the two
\* shapes.
C4_ErrorWrapping ==
    Handled =>
       /\ ListedFailure => IsErrorShape(response)
       /\ IsErrorShape(response) # IsSuccessShape(response)
       /\ IsSuccessShape(response) => ~ListedFailure

\* An upstream failure was wrapped: 429 from the model API became a 500.
C4_Witness ==
    /\ Handled
    /\ upstream # None
    /\ upstream.kind = "response"
    /\ upstream.status = 429
    /\ IsErrorShape(response)
    /\ response.body.error = <<"OpenAI API error: ", "429", " ", "Too Many Requests">>

\* C9: a request to the model API is issued only for a non-OPTIONS request
\* whose body parsed as JSON and only with the key configured, and at most
\* one is issued per incoming request.
C9_OutboundCalls ==
    /\ Len(outbound) <= 1
    /\ outbound # <<>> =>
          /\ req.method # "OPTIONS"
          /\ bodyRead /\ req.body.json # "invalid"
          /\ openAIApiKey \notin {Undefined, ""}
    /\ upstream # None => Len(outbound) = 1

\* The one call failed, the failure was reported and no second call was made.
C9_Witness ==
    /\ pc = "done"
    /\ Len(outbound) = 1
    /\ upstream # None
    /\ upstream.kind = "throws"
    /\ response.status = 500

\* C10: an OPTIONS request gets a response with a null body, the CORS headers
\* and a status that is no error, without its body being read and whatever
\* the key is; it never gets the 500 error response.
C10_Preflight ==
    (pc = "done" /\ req.method = "OPTIONS") =>
       /\ response.body = [null |-> TRUE]
       /\ \A h \in DOMAIN corsHeaders :
             h \in DOMAIN response.headers /\ response.headers[h] = corsHeaders[h]
       /\ response.status \in 200..399
       /\ ~bodyRead
       /\ outbound = <<>>

\* A preflight with a body that is not JSON, and no key configured.
C10_Witness ==
    /\ pc = "done"
    /\ req.method = "OPTIONS"
    /\ req.body.json = "invalid"
    /\ openAIApiKey = Undefined
    /\ response.status = 200

(***************************************************************************)
(* Claims about the NetworkingCoach component.                             *)
(***************************************************************************)
\* C5, as stated: whenever Generate Message produced the message shown, a
\* request to the generate-networking-message function was issued before.
C5_RequestBeforeMessage ==
    generatedMessage # <<>> =>
        \E i \in 1..Len(invocations) : invocations[i].function = "generate-networking-message"

\* C5, amended: the component never issues a request to the edge function;
\* the message shown after Generate Message is the one handleGenerate built
\* from the client-side template in the same step.
C5_GeneratesWithoutRequest ==
    /\ invocations = <<>>
    /\ lastGen # None => generatedMessage = lastGen.message /\ generatedMessage # <<>>

\* A message was generated and is shown.
C5_Witness == lastGen # None /\ generatedMessage # <<>> /\ activeStep = 3

\* Two form states that agree on the four fields the claim names.
SameFour(d, e) ==
    /\ d.messageType = e.messageType
    /\ d.recipientName = e.recipientName
    /\ d.company = e.company
    /\ d.purpose = e.purpose

\* C6: handleGenerate sets generatedMessage to the template of the selected
\* messageType applied to the form: the literal pieces of the pattern, with
\* recipientName, company and purpose substituted verbatim at its
\* placeholders; two generations from forms equal in (messageType,
\* recipientName, company, purpose) give equal messages, whatever
\* recipientTitle is.
C6_TemplateInterpolation ==
    /\ lastGen # None =>
          LET pat == messageTemplates[lastGen.data.messageType]
              msg == lastGen.message
          IN  /\ generatedMessage = msg
              /\ Len(msg) = Len(pat)
              /\ \A i \in 1..Len(pat) :
                    IF "lit" \in DOMAIN pat[i]
                    THEN msg[i] = pat[i].lit
                    ELSE /\ pat[i].field \in {"recipientName", "company", "purpose"}
                         /\ msg[i] = lastGen.data[pat[i].field]
    /\ (lastGen # None /\ prevGen # None /\ SameFour(lastGen.data, prevGen.data))
          => lastGen.message = prevGen.message

\* Two generations whose forms differ in recipientTitle only.
C6_Witness ==
    /\ lastGen # None /\ prevGen # None
    /\ SameFour(lastGen.data, prevGen.data)
    /\ lastGen.data.recipientTitle # prevGen.data.recipientTitle
    /\ lastGen.data.purpose # ""

(***************************************************************************)
(* Claims about the MessageHistory component.                              *)
(***************************************************************************)
\* The positions of list q whose entry is not the message with this id.
Others(q, id) == {i \in 1..Len(q) : q[i].id # id}

HasCorsHeaders(r) ==
    /\ "Access-Control-Allow-Origin" \in DOMAIN r.headers
    /\ r.headers["Access-Control-Allow-Origin"] = "*"
    /\ "Access-Control-Allow-Headers" \in DOMAIN r.headers
    /\ r.headers["Access-Control-Allow-Headers"]
          = "authorization, x-client-info, apikey, content-type"

\* C11: every response the function returns, for a preflight, a success or
\* an error, carries Access-Control-Allow-Origin: * and
\* Access-Control-Allow-Headers: authorization, x-client-info, apikey,
\* content-type.
C11_CorsOnEveryResponse ==
    response # None => HasCorsHeaders(response)

\* A success response was returned, and it carries the headers.
C11_Witness ==
    /\ pc = "done"
    /\ req.method = "POST"
    /\ response.status = 200
    /\ response.body.null = FALSE /\ response.body.success = TRUE
    /\ HasCorsHeaders(response)

\* C12: in every success response the message is a non-empty string that
\* neither starts nor ends with whitespace, and the upstream content it
\* relays was a string with a character that is not whitespace: content that
\* is missing, empty or whitespace-only is never relayed as a success.
C12_SuccessMessageNonBlank ==
    (response # None /\ response.body.null = FALSE /\ response.body.success = TRUE)
    => /\ response.body.message # <<>>
       /\ Head(response.body.message) \notin WhiteSpace
       /\ response.body.message[Len(response.body.message)] \notin WhiteSpace
       /\ UpstreamContent
       /\ NonBlank(upstream.data.content.s)

\* A success whose content has whitespace inside only: it is relayed whole.
C12_Witness ==
    /\ pc = "done"
    /\ UpstreamContent
    /\ upstream.data.content.s = <<"h", " ", "h">>
    /\ response.status = 200
    /\ response.body.success = TRUE
    /\ response.body.message = <<"h", " ", "h">>

\* A field of the request body as the handler's destructuring reads it.
RequestField(name) ==
    IF req.body.json = "object" THEN req.body.fields[name] ELSE Undefined

\* The request is one that validation of its fields would turn down.
FieldsNotValid ==
    \/ RequestField("messageType")
          \notin {"linkedin", "informational", "recruiter-followup", "mentor-request"}
    \/ RequestField("recipientName") = Undefined
    \/ RequestField("company") = Undefined

\* The request was forwarded exactly if the key is configured, and its
\* outcome follows from the key and the upstream answer alone.
OutcomeByKeyAndUpstream ==
    /\ (outbound # <<>>) <=> (openAIApiKey \notin {Undefined, ""})
    /\ pc = "done" =>
          /\ response.status \in {200, 500}
          /\ response.status = 200 <=>
                /\ openAIApiKey \notin {Undefined, ""}
                /\ UpstreamContent
                /\ NonBlank(upstream.data.content.s)

\* C13 as stated: a request (not a preflight) whose body parsed and whose
\* messageType is not one of the four, or whose recipientName or company is
\* absent, is forwarded like any other, and its outcome is determined by the
\* key check and the upstream answer only.
C13_NoFieldValidation ==
    (req # None /\ req.method # "OPTIONS" /\ req.body.json # "invalid" /\ FieldsNotValid)
    => OutcomeByKeyAndUpstream

\* C13, amended: the above holds for a body that is a JSON object; a body
\* that is the JSON value null is answered with the 500 error response and
\* is not forwarded, whatever the key is.
C13_NoFieldValidationOfObjects ==
    /\ (req # None /\ req.method # "OPTIONS" /\ req.body.json = "object" /\ FieldsNotValid)
       => OutcomeByKeyAndUpstream
    /\ (req # None /\ req.method # "OPTIONS" /\ req.body.json = "null")
       => outbound = <<>> /\ pc = "done" /\ IsErrorShape(response)

\* A request with an unknown messageType and no recipientName or company was
\* forwarded and answered with a success.
C13_Witness ==
    /\ pc = "done"
    /\ req.method = "POST"
    /\ req.body.json = "object"
    /\ req.body.fields.messageType = "sms"
    /\ req.body.fields.recipientName = Undefined
    /\ req.body.fields.company = Undefined
    /\ Len(outbound) = 1
    /\ response.status = 200
    /\ response.body.success = TRUE

\* The prompt p has the piece t.
HasPiece(p, t) == \E i \in 1..Len(p) : p[i] = t

\* The prompt p has the line that starts with label and goes on with value.
HasLine(p, label, value) ==
    \E i \in 1..(Len(p) - 1) : p[i] = label /\ p[i + 1] = value

\* A field as it reads in a line: an absent one reads undefined.
AsText(v) == IF v = Undefined THEN "undefined" ELSE v

\* C14: the user prompt of the forwarded request always has the message
\* type, recipient name and company lines; it has the "Recipient's title"
\* line exactly if recipientTitle is non-empty and the "Purpose/context"
\* line exactly if purpose is non-empty; it asks for a 'LinkedIn connection
\* request' with the 'Under 300 characters' requirement exactly if
\* messageType is 'linkedin', and for a 'professional email' with the
\* subject-line requirement otherwise; the system prompt is the one keyed by
\* messageType.
C14_PromptConstruction ==
    outbound # <<>> =>
        LET p == outbound[1].user
            f == req.body.fields
        IN  /\ HasLine(p, " with the following details:\n\n- Message type: ", AsText(f.messageType))
            /\ HasLine(p, "\n- Recipient's name: ", AsText(f.recipientName))
            /\ HasLine(p, "\n- Company: ", AsText(f.company))
            /\ HasPiece(p, "\n- Recipient's title: ") <=> f.recipientTitle \notin {Undefined, ""}
            /\ f.recipientTitle \notin {Undefined, ""}
                  => HasLine(p, "\n- Recipient's title: ", f.recipientTitle)
            /\ HasPiece(p, "\n- Purpose/context: ") <=> f.purpose \notin {Undefined, ""}
            /\ f.purpose \notin {Undefined, ""}
                  => HasLine(p, "\n- Purpose/context: ", f.purpose)
            /\ IF f.messageType = "linkedin"
               THEN /\ HasLine(p, "Please write a ", "LinkedIn connection request")
                    /\ HasPiece(p, "- Under 300 characters for LinkedIn")
                    /\ ~HasPiece(p, "professional email")
                    /\ ~HasPiece(p, "- Include a clear subject line if it's an email")
               ELSE /\ HasLine(p, "Please write a ", "professional email")
                    /\ HasPiece(p, "- Include a clear subject line if it's an email")
                    /\ ~HasPiece(p, "LinkedIn connection request")
                    /\ ~HasPiece(p, "- Under 300 characters for LinkedIn")
            /\ f.messageType \in DOMAIN systemPrompts
                  => outbound[1].system = systemPrompts[f.messageType]
            /\ f.messageType \notin DOMAIN systemPrompts
                  => outbound[1].system = Undefined

\* A LinkedIn request with a title and an empty purpose was forwarded.
C14_Witness ==
    /\ outbound # <<>>
    /\ req.body.fields.messageType = "linkedin"
    /\ req.body.fields.recipientTitle = "CTO"
    /\ req.body.fields.purpose = ""
    /\ HasLine(outbound[1].user, "\n- Recipient's title: ", "CTO")
    /\ ~HasPiece(outbound[1].user, "\n- Purpose/context: ")
    /\ outbound[1].system = systemPrompts.linkedin

(***************************************************************************)
(* Claims about toggleFavorite.                                            *)
(***************************************************************************)
\* No call is in flight, the list was loaded and no toggle reported an error.
TogglesCompleted ==
    /\ calls = EmptyBag
    /\ ~loading
    /\ lastToggle # None => ~lastToggle.failed

\* C15: once all toggleFavorite calls in flight have completed without an
\* error, every message of the local list has the is_favorite value that its
\* row has in the database, also when Favorite was clicked again before an
\* earlier toggle of the message had completed.
C15_FavoriteMatchesDatabase ==
    TogglesCompleted =>
        \A i \in 1..Len(messages) : \A r \in networking_messages :
            r.id = messages[i].id => r.is_favorite = messages[i].is_favorite

\* Call c, awaiting the result of its update, resumes in this step.
ToggleResumed(c) ==
    /\ c.op = "toggle" /\ c.stage = "response"
    /\ CopiesIn(c, calls') < CopiesIn(c, calls)

\* A tracking insert of toggleFavorite is sent in this step.
TrackSent(t) ==
    /\ t.op = "toggle" /\ t.stage = "track"
    /\ CopiesIn(t, calls') > CopiesIn(t, calls)

FavoritedRows(tbl) == {a \in tbl : a.action_type = "favorited"}

\* What a step in which toggleFavorite resumes does, and where tracking
\* inserts and 'favorited' rows come from.
ToggleOutcome ==
    /\ \A c \in BagToSet(calls) : ToggleResumed(c) =>
          IF c.error
          THEN /\ messages' = messages
               /\ message_analytics' = message_analytics
               /\ calls' = calls (-) SetToBag({c})
               /\ toast' = "Error"
               /\ lastToggle'.description = "Failed to update favorite status."
          ELSE /\ Len(messages') = Len(messages)
               /\ \A i \in 1..Len(messages) :
                     /\ \A fld \in DOMAIN messages[i] \ {"is_favorite"} :
                           messages'[i][fld] = messages[i][fld]
                     /\ messages[i].id # c.message.id => messages'[i] = messages[i]
                     /\ messages[i].id = c.message.id
                           => messages'[i].is_favorite # messages[i].is_favorite
    /\ \A t \in BagToSet(calls') : TrackSent(t) =>
          \E c \in BagToSet(calls) :
              ToggleResumed(c) /\ ~c.error /\ c.message = t.message
    /\ FavoritedRows(message_analytics') \ FavoritedRows(message_analytics) # {} =>
          \E t \in BagToSet(calls) :
              /\ t.op = "toggle" /\ t.stage = "track"
              /\ CopiesIn(t, calls') < CopiesIn(t, calls)

\* C16: when toggleFavorite resumes with an error of the update, the local
\* list is unchanged, no 'favorited' row is inserted (none in that step, and
\* no tracking insert is sent; a 'favorited' row only ever comes from a
\* tracking insert sent after an update without error) and the toast with
\* 'Failed to update favorite status.' is shown; when it resumes without an
\* error, the is_favorite field of the targeted message flips and every other
\* field, every other message and the order of the list are unchanged.
C16_ToggleFailureAndSuccess == [][ToggleOutcome]_vars

\* A toggle failed and a later one succeeded: the list shows a favorite, and
\* the toast of the failure was shown before.
C16_Witness ==
    /\ lastToggle # None
    /\ lastToggle.failed
    /\ ~lastToggle.error
    /\ \E i \in 1..Len(messages) :
          messages[i].id = lastToggle.target /\ messages[i].is_favorite

(***************************************************************************)
(* Claims about handleCopy.                                                *)
(***************************************************************************)
CopiedRows(tbl) == {a \in tbl : a.action_type = "copied"}

\* C17: a 'copied' row is in message_analytics only for a message whose
\* clipboard write has succeeded before; when the clipboard write fails,
\* handleCopy sends no insert, leaves copiedId as it was and shows the
\* 'Copy failed' toast.
C17_CopyTrackedAfterWrite ==
    /\ \A a \in CopiedRows(message_analytics) : a.message_id \in clipboardOk
    /\ \A c \in BagToSet(calls) :
          (c.op = "copy" /\ c.stage \in {"track", "tracked"}) => c.message.id \in clipboardOk
    /\ (lastCopy # None /\ ~lastCopy.written) =>
          /\ lastCopy.copiedAfter = lastCopy.copiedBefore
          /\ lastCopy.toast = "Copy failed"
          /\ ~lastCopy.tracks

\* The text of a message was copied and the row that tracks it is stored.
C17_Witness ==
    /\ lastCopy # None
    /\ lastCopy.written
    /\ lastCopy.copiedAfter = lastCopy.target
    /\ \E a \in CopiedRows(message_analytics) : a.message_id = lastCopy.target

=============================================================================
